---- MODULE Spec2Model ----
(***************************************************************************)
(* Model of mucore/src/muEdge.c: the edge operators muLaplace, muSobel,    *)
(* muPrewitt and the muCanny stub, in the portable build (neither HISI3516 *)
(* nor HISI3531 is defined, so muSobel has no platformSobel shunt).        *)
(*                                                                         *)
(* One call is modelled: the validation, then one step per iteration of    *)
(* the (j, i) loop nest, the return being part of the last step.  An image *)
(* buffer is a function from the row-major byte index to a byte.  The      *)
(* bytes the loops read past the end of the source buffer are undefined    *)
(* behaviour: each such byte is chosen when it is first read (any value,   *)
(* or the read faults) and keeps its value for the rest of the call.       *)
(***************************************************************************)
EXTENDS Integers, FiniteSets, TLC

\* ------------------------------------------------------------------ bounds
MaxW == 3
MaxH == 3
MaxLit == 1

\* Byte values the source pixels are drawn from, values of uniform images,
\* values of the bytes past the end of the source buffer, the destination's
\* pre-call fill, and the mask selectors a caller passes.
PixelVals == {0, 128, 255}
UniformVals == {1, 77, 254}
TailVals == {0, 255}
DstFill == {170}
Selections == {0, 1, 2, 3, 255}
Depths == {"MU_IMG_DEPTH_8U", "MU_IMG_DEPTH_16S"}
Channels == {1, 3}

VARIABLES
    src,      \* the source image: depth, channels, width, height, imagedata
    dst,      \* the destination image
    ang,      \* muCanny's direction image
    pre,      \* the three buffers as they were before the call
    beyond,   \* the bytes past the end of src.imagedata read so far
    call,     \* the function called and muLaplace's selection
    pc,       \* "idle", "loop", "done" or "fault"
    i, j,     \* the loop counters of the iteration last run
    index,    \* the local index of the iteration last run
    temp,     \* the MU_16S temp as assigned by the response expression
    ret,      \* the status returned
    reads,    \* the indices at which in[] has been read
    writes,   \* how often each index of out[] has been written
    pending   \* the iterations of the loop nest not yet run

vars == <<src, dst, ang, pre, beyond, call, pc, i, j, index, temp, ret,
          reads, writes, pending>>

\* ------------------------------------------------------- C arithmetic
Abs(x) == IF x < 0 THEN -x ELSE x

\* Conversion of an int to MU_16S and to MU_8U.
ToS16(x) == ((x + 32768) % 65536) - 32768
ToU8(x) == x % 256

\* ------------------------------------------------------------ validation
muCheckDepth(s, d) ==
    IF s.depth = "MU_IMG_DEPTH_8U" /\ d.depth = "MU_IMG_DEPTH_8U"
    THEN "MU_ERR_SUCCESS" ELSE "DepthMismatch"

ChannelsSupportedSrcOnly(s, d) == s.channels = 1

ChannelsSupported(s, d) == s.channels = 1 /\ d.channels = 1

Validate(s, d) ==
    IF muCheckDepth(s, d) # "MU_ERR_SUCCESS" THEN muCheckDepth(s, d)
    ELSE IF ~ChannelsSupported(s, d) THEN "MU_ERR_NOT_SUPPORT"
    ELSE "MU_ERR_SUCCESS"

\* The case of muLaplace's switch that runs: 0 when none does.
SelectedMaskDefault2(selection) == IF selection = 1 THEN 1 ELSE 2

SelectedMask(selection) ==
    IF selection = 1 THEN 1 ELSE IF selection = 2 THEN 2 ELSE 0

\* ----------------------------------------------------------- loop bodies
PixelIndex(ii, jj, width) == ii + width * jj

Laplace1Shift1(in, ix, width) ==
    Abs((in[ix + 1] + in[ix + width] + in[ix + width + 2]
         + in[ix + 2 * width + 1]) - in[ix + width + 1] * 2)

Laplace1(in, ix, width) ==
    Abs((in[ix + 1] + in[ix + width] + in[ix + width + 2]
         + in[ix + 2 * width + 1]) - in[ix + width + 1] * 4)

Laplace2Shift2(in, ix, width) ==
    Abs((in[ix] + in[ix + 1] + in[ix + 2] + in[ix + width]
         + in[ix + width + 2] + in[ix + 2 * width] + in[ix + 2 * width + 1]
         + in[ix + 2 * width + 2]) - in[ix + width + 1] * 4)

Laplace2(in, ix, width) ==
    Abs((in[ix] + in[ix + 1] + in[ix + 2] + in[ix + width]
         + in[ix + width + 2] + in[ix + 2 * width] + in[ix + 2 * width + 1]
         + in[ix + 2 * width + 2]) - in[ix + width + 1] * 8)

SobelGx(in, ix, width) ==
    (in[ix] + in[ix + 1] * 2 + in[ix + 2])
    - (in[ix + 2 * width] + in[ix + 2 * width + 1] * 2
       + in[ix + 2 * width + 2])

SobelGyUnweighted(in, ix, width) ==
    (in[ix] + in[ix + width] + in[ix + 2 * width])
    - (in[ix + 2] + in[ix + width + 2] + in[ix + 2 * width + 2])

SobelGy(in, ix, width) ==
    (in[ix] + in[ix + width] * 2 + in[ix + 2 * width])
    - (in[ix + 2] + in[ix + width + 2] * 2 + in[ix + 2 * width + 2])

PrewittGx(in, ix, width) ==
    (in[ix] + in[ix + 1] + in[ix + 2])
    - (in[ix + 2 * width] + in[ix + 2 * width + 1] + in[ix + 2 * width + 2])

PrewittGy(in, ix, width) ==
    (in[ix] + in[ix + width] + in[ix + 2 * width])
    - (in[ix + 2] + in[ix + width + 2] + in[ix + 2 * width + 2])

\* The offsets from index at which an iteration reads in[].
ReadOffsets(c, width) ==
    IF c.op = "muLaplace" /\ SelectedMask(c.selection) = 1
    THEN {1, width, width + 2, 2 * width + 1, width + 1}
    ELSE IF c.op = "muLaplace"
    THEN {0, 1, 2, width, width + 2, 2 * width, 2 * width + 1,
          2 * width + 2, width + 1}
    ELSE {0, 1, 2, width, width + 2, 2 * width, 2 * width + 1,
          2 * width + 2}

\* The value the response expression assigns to the MU_16S temp.
Response(c, in, ix, width) ==
    ToS16(IF c.op = "muLaplace" /\ SelectedMask(c.selection) = 1
              THEN Laplace1(in, ix, width)
          ELSE IF c.op = "muLaplace" THEN Laplace2(in, ix, width)
          ELSE IF c.op = "muSobel"
              THEN Abs(SobelGx(in, ix, width)) + Abs(SobelGy(in, ix, width))
          ELSE Abs(PrewittGx(in, ix, width)) + Abs(PrewittGy(in, ix, width)))

SaturateNone(c, t) == t

\* temp = temp > 255 ? 255 : temp, and for muSobel and muPrewitt
\* temp = temp < 0 ? 0 : temp.
Saturate(c, t) ==
    LET hi == IF t > 255 THEN 255 ELSE t
    IN  IF c.op = "muLaplace" THEN hi ELSE IF hi < 0 THEN 0 ELSE hi

\* The byte stored by out[index+width+1] = (MU_8U)temp.
Stored(c, t) == ToU8(Saturate(c, t))

OutIndex(ix, width) == ix + width + 1

LoopInputAliased(s, d) == d.imagedata

\* in = src->imagedata.
LoopInput(s, d) == s.imagedata

\* The iterations of for(j=0; j<(height-1); j++) for(i=0; i<(width-1); i++).
Iterations(width, height) == (0 .. width - 2) \X (0 .. height - 2)

\* The iteration after (ii, jj) in the loop nest, <<>> when the nest ends.
NextIteration(ii, jj, width, height) ==
    IF ii + 1 < width - 1 THEN <<ii + 1, jj>>
    ELSE IF jj + 1 < height - 1 THEN <<0, jj + 1>>
    ELSE <<>>

\* -------------------------------------------------------------- inputs
Checkerboard(w, h, a, b) ==
    [k \in 0 .. w * h - 1 |->
        IF ((k % w) + (k \div w)) % 2 = 0 THEN a ELSE b]

LitSets(n) == {S \in SUBSET (0 .. n - 1) : Cardinality(S) <= MaxLit}

\* Checkerboards, those of one value (uniform images) included.
Patterns(w, h) ==
    {Checkerboard(w, h, a, b) : a \in PixelVals, b \in PixelVals}

\* Those, more uniform images, and a background with at most MaxLit pixels of another value.
Images(w, h) ==
    {[k \in 0 .. w * h - 1 |-> IF k \in S THEN f ELSE b] :
        S \in LitSets(w * h), f \in PixelVals, b \in PixelVals}
    \cup Patterns(w, h)
    \cup {[k \in 0 .. w * h - 1 |-> v] : v \in UniformVals}

Image(depth, channels, w, h, data) ==
    [depth |-> depth, channels |-> channels, width |-> w, height |-> h,
     imagedata |-> data]

NoBytes == [k \in {} |-> 0]

InitWith(sd, dd, sc, dc, w, h, data, fill) ==
    LET blank == [k \in 0 .. w * h - 1 |-> fill]
    IN  /\ src = Image(sd, sc, w, h, data)
        /\ dst = Image(dd, dc, w, h, blank)
        /\ ang = Image(dd, dc, w, h, blank)
        /\ pre = [src |-> data, dst |-> blank, ang |-> blank]
        /\ beyond = NoBytes
        /\ call = [op |-> "none", selection |-> 0]
        /\ pc = "idle"
        /\ i = 0
        /\ j = 0
        /\ index = 0
        /\ temp = 0
        /\ ret = "none"
        /\ reads = {}
        /\ writes = [k \in 0 .. w * h - 1 |-> 0]
        /\ pending = {}

Init ==
    \E sd \in Depths, dd \in Depths, sc \in Channels, dc \in Channels,
       w \in 1 .. MaxW, h \in 1 .. MaxH, fill \in DstFill :
        \E data \in Images(w, h) :
            InitWith(sd, dd, sc, dc, w, h, data, fill)

\* --------------------------------------------------------------- actions
Calls ==
    {[op |-> "muLaplace", selection |-> s] : s \in Selections}
    \cup {[op |-> o, selection |-> 0] : o \in {"muSobel", "muPrewitt", "muCanny"}}

\* muCanny: the depth check is commented out.
muCannyChecked(s, d, a) ==
    IF s.depth # "MU_IMG_DEPTH_8U" \/ d.depth # "MU_IMG_DEPTH_8U"
    THEN "MU_ERR_NOT_SUPPORT" ELSE "MU_ERR_SUCCESS"

muCanny(s, d, a) == "MU_ERR_SUCCESS"

\* Whether the call c reaches a loop nest, after validation and the switch.
RunsLoop(c) ==
    /\ c.op # "muCanny"
    /\ Validate(src, dst) = "MU_ERR_SUCCESS"
    /\ c.op = "muLaplace" => SelectedMask(c.selection) # 0

\* Entry of a function up to its loop nest; a call that runs no iteration
\* returns in the same step.
Call(c) ==
    /\ pc = "idle"
    /\ call' = c
    /\ IF RunsLoop(c) /\ Iterations(src.width, src.height) # {}
       THEN /\ pc' = "loop"
            /\ pending' = Iterations(src.width, src.height)
            /\ ret' = ret
       ELSE /\ pc' = "done"
            /\ pending' = {}
            /\ ret' = IF c.op = "muCanny" THEN muCanny(src, dst, ang)
                      ELSE Validate(src, dst)
    /\ UNCHANGED <<src, dst, ang, pre, beyond, i, j, index, temp, reads,
                   writes>>

\* The indices past the end of the source buffer that iteration (ii, jj)
\* is the first to read.
Fresh(ii, jj) ==
    {k \in {PixelIndex(ii, jj, src.width) + o :
                o \in ReadOffsets(call, src.width)} :
        k >= src.width * src.height /\ k \notin DOMAIN beyond}

\* The values the bytes at the indices fresh, past the end of the source
\* buffer, may turn out to hold: any bytes.
AnyTail(fresh) == [fresh -> TailVals]

\* The same with one value at all the bytes past the end.
EvenTail(fresh) ==
    {[k \in fresh |-> v] :
        v \in {x \in TailVals : \A k \in DOMAIN beyond : beyond[k] = x}}

\* One iteration (ii, jj) of a loop nest; last says the nest ends with it,
\* tails are the contents the bytes first read past the end may have.
RunIteration(ii, jj, last, tails) ==
    LET width == src.width
        ix == PixelIndex(ii, jj, width)
    IN  /\ i' = ii
        /\ j' = jj
        /\ index' = ix
        /\ reads' = reads \cup {ix + o : o \in ReadOffsets(call, width)}
        /\ pending' = pending \ {<<ii, jj>>}
        /\ UNCHANGED <<src, ang, pre, call>>
        /\ \/ \E t \in tails :
                LET in == t @@ beyond @@ LoopInput(src, dst)
                    tmp == Response(call, in, ix, width)
                    o == OutIndex(ix, width)
                IN  /\ beyond' = t @@ beyond
                    /\ temp' = tmp
                    /\ dst' = [dst EXCEPT !.imagedata[o] = Stored(call, tmp)]
                    /\ writes' = [writes EXCEPT ![o] = @ + 1]
                    /\ pc' = IF last THEN "done" ELSE "loop"
                    /\ ret' = IF last THEN "MU_ERR_SUCCESS" ELSE ret
           \/ /\ Fresh(ii, jj) # {}
              /\ pc' = "fault"
              /\ UNCHANGED <<beyond, temp, dst, writes, ret>>

\* The loop nest as the code runs it, row by row.
Iterate ==
    /\ pc = "loop"
    /\ LET nxt == IF pending = Iterations(src.width, src.height)
                  THEN <<0, 0>>
                  ELSE NextIteration(i, j, src.width, src.height)
       IN  RunIteration(nxt[1], nxt[2],
                        NextIteration(nxt[1], nxt[2], src.width, src.height) = <<>>,
                        AnyTail(Fresh(nxt[1], nxt[2])))

Next == (\E c \in Calls : Call(c)) \/ Iterate

Spec == Init /\ [][Next]_vars

\* ------------------------------------------------- iterations in any order
\* The same calls with the iterations of the loop nest run in an arbitrary
\* order, as when the rows are split across workers.
InitAnyOrder ==
    \E w \in 1 .. MaxW, h \in 1 .. MaxH, fill \in DstFill :
        \E data \in Patterns(w, h) :
            InitWith("MU_IMG_DEPTH_8U", "MU_IMG_DEPTH_8U", 1, 1, w, h, data, fill)

IterateAnyOrder ==
    /\ pc = "loop"
    /\ \E it \in pending :
          RunIteration(it[1], it[2], pending = {it}, EvenTail(Fresh(it[1], it[2])))

NextAnyOrder == (\E c \in Calls : Call(c)) \/ IterateAnyOrder

SpecAnyOrder == InitAnyOrder /\ [][NextAnyOrder]_vars

\* What one iteration makes of the destination bytes out.
LoopBody(out, ii, jj) ==
    LET width == src.width
        ix == PixelIndex(ii, jj, width)
        in == beyond @@ LoopInput(src, [dst EXCEPT !.imagedata = out])
    IN  [out EXCEPT ![OutIndex(ix, width)] =
            Stored(call, Response(call, in, ix, width))]

RECURSIVE SeqLoop(_, _)
SeqLoop(out, it) ==
    IF it = <<>> THEN out
    ELSE SeqLoop(LoopBody(out, it[1], it[2]),
                 NextIteration(it[1], it[2], src.width, src.height))

\* The destination bytes the row-major loop nest leaves, from the pre-call
\* bytes and the bytes read past the end of the source.
SequentialResult ==
    IF Iterations(src.width, src.height) = {} THEN pre.dst
    ELSE SeqLoop(pre.dst, <<0, 0>>)

\* ---------------------------------------------------------------- claims
Px(img, r, c) == img.imagedata[r * img.width + c]
S(r, c) == Px(src, r, c)
Min255(x) == IF x > 255 THEN 255 ELSE x
InteriorRows == 1 .. src.height - 2
InteriorCols == 1 .. src.width - 2
Border ==
    {rc \in (0 .. src.height - 1) \X (0 .. src.width - 1) :
        \/ rc[1] \in {0, src.height - 1}
        \/ rc[2] \in {0, src.width - 1}}
HeadersValid ==
    /\ src.depth = "MU_IMG_DEPTH_8U" /\ dst.depth = "MU_IMG_DEPTH_8U"
    /\ src.channels = 1 /\ dst.channels = 1
Computes ==
    \/ call.op \in {"muSobel", "muPrewitt"}
    \/ call.op = "muLaplace" /\ call.selection \in {1, 2}
Succeeded == pc = "done" /\ ret = "MU_ERR_SUCCESS"
Unwritten == \A k \in DOMAIN writes : writes[k] = 0
GradK == IF call.op = "muSobel" THEN 2 ELSE 1
Gx(r, c) ==
    (S(r - 1, c - 1) + GradK * S(r - 1, c) + S(r - 1, c + 1))
    - (S(r + 1, c - 1) + GradK * S(r + 1, c) + S(r + 1, c + 1))
Gy(r, c) ==
    (S(r - 1, c - 1) + GradK * S(r, c - 1) + S(r + 1, c - 1))
    - (S(r - 1, c + 1) + GradK * S(r, c + 1) + S(r + 1, c + 1))
Cross(r, c) == S(r - 1, c) + S(r + 1, c) + S(r, c + 1) + S(r, c - 1)
Box(r, c) ==
    Cross(r, c) + S(r - 1, c - 1) + S(r - 1, c + 1) + S(r + 1, c - 1)
    + S(r + 1, c + 1)

\* C1: muLaplace, muSobel and muPrewitt on images whose depth is not 8-bit
\* unsigned or whose channel count is not 1 return the depth error, or
\* MU_ERR_NOT_SUPPORT for the channel count, before any pixel is read or
\* written, and leave every destination byte as it was.
C1_InvalidImagesRejectedUntouched ==
    (pc # "idle" /\ call.op \in {"muLaplace", "muSobel", "muPrewitt"}
     /\ ~HeadersValid)
    => /\ pc = "done"
       /\ ret = IF src.depth # "MU_IMG_DEPTH_8U" \/ dst.depth # "MU_IMG_DEPTH_8U"
                THEN "DepthMismatch" ELSE "MU_ERR_NOT_SUPPORT"
       /\ dst.imagedata = pre.dst
       /\ reads = {}
       /\ Unwritten

C1_Witness ==
    /\ pc = "done" /\ call.op = "muSobel"
    /\ src.depth = "MU_IMG_DEPTH_8U" /\ dst.depth = "MU_IMG_DEPTH_8U"
    /\ src.channels = 1 /\ dst.channels = 3
    /\ src.width = 3 /\ src.height = 3
    /\ ret = "MU_ERR_NOT_SUPPORT"

\* C2: after a successful muLaplace (selector 1 or 2), muSobel or muPrewitt
\* every destination pixel of the outer one-pixel border (row 0, row H-1,
\* column 0, column W-1) holds the value it had before the call.
C2_BorderUntouched ==
    (Succeeded /\ Computes /\ HeadersValid)
    => \A rc \in Border :
          Px(dst, rc[1], rc[2]) = pre.dst[rc[1] * src.width + rc[2]]

\* C3: the response held in temp lies in 0..2040, inside the signed 16-bit
\* range, and the byte stored for it is min(255, response), never the
\* response modulo 256.
C3_ResponseSaturates ==
    (pc \in {"loop", "done"} /\ ~Unwritten)
    => /\ temp \in 0 .. 2040
       /\ dst.imagedata[index + src.width + 1] = Min255(temp)

C3_Witness ==
    /\ pc \in {"loop", "done"} /\ ~Unwritten
    /\ call.op = "muLaplace" /\ call.selection = 2
    /\ temp = 2040
    /\ dst.imagedata[index + src.width + 1] = 255

\* C4: muLaplace at every position (r, c) with its 3x3 neighbourhood inside
\* the image stores min(255, |N + S + E + W - 4*C|) under selector 1 and
\* min(255, |sum of the 8 neighbours - 8*C|) under selector 2.
C4_LaplaceInterior ==
    (Succeeded /\ HeadersValid /\ call.op = "muLaplace"
     /\ call.selection \in {1, 2})
    => \A r \in InteriorRows, c \in InteriorCols :
          Px(dst, r, c) =
              IF call.selection = 1
              THEN Min255(Abs(Cross(r, c) - 4 * S(r, c)))
              ELSE Min255(Abs(Box(r, c) - 8 * S(r, c)))

\* One pixel of value 128 surrounded by zeros gives 255 there, selector 2.
C4_Witness ==
    /\ Succeeded /\ call.op = "muLaplace" /\ call.selection = 2
    /\ src.width = 3 /\ src.height = 3
    /\ S(1, 1) = 128
    /\ \A k \in DOMAIN src.imagedata : k # 4 => src.imagedata[k] = 0
    /\ Px(dst, 1, 1) = 255

\* C5: muSobel (k = 2) and muPrewitt (k = 1) at every position (r, c) with
\* its 3x3 neighbourhood inside the image store min(255, |Gx| + |Gy|), Gx
\* the top row minus the bottom row and Gy the left column minus the right
\* column, the middle of each weighted k and the centre pixel 0.
C5_GradientInterior ==
    (Succeeded /\ HeadersValid /\ call.op \in {"muSobel", "muPrewitt"})
    => \A r \in InteriorRows, c \in InteriorCols :
          Px(dst, r, c) = Min255(Abs(Gx(r, c)) + Abs(Gy(r, c)))

C5_Witness ==
    /\ Succeeded /\ call.op = "muSobel"
    /\ src.width = 3 /\ src.height = 3
    /\ S(0, 1) = 255
    /\ \A k \in DOMAIN src.imagedata : k # 1 => src.imagedata[k] = 128
    /\ Px(dst, 1, 1) = 254

\* C6: on a source whose pixels all have one value, muLaplace (selector 1
\* or 2), muSobel and muPrewitt store 0 at every interior pixel.
C6_UniformGivesZero ==
    (Succeeded /\ HeadersValid /\ Computes
     /\ \A k \in DOMAIN src.imagedata : src.imagedata[k] = src.imagedata[0])
    => \A r \in InteriorRows, c \in InteriorCols : Px(dst, r, c) = 0

C6_Witness ==
    /\ Succeeded /\ call.op = "muLaplace" /\ call.selection = 2
    /\ src.width = 3 /\ src.height = 3
    /\ \A k \in DOMAIN src.imagedata : src.imagedata[k] = 77
    /\ Px(dst, 1, 1) = 0 /\ writes[4] = 1

\* C7: muLaplace on valid images with a selector other than 1 or 2 returns
\* MU_ERR_SUCCESS and leaves every destination byte as it was.
C7_OtherSelectorIsNoOp ==
    (pc # "idle" /\ call.op = "muLaplace" /\ call.selection \notin {1, 2}
     /\ HeadersValid)
    => /\ Succeeded
       /\ dst.imagedata = pre.dst
       /\ Unwritten

C7_Witness ==
    /\ Succeeded /\ call.op = "muLaplace" /\ call.selection = 3
    /\ HeadersValid /\ src.width = 3 /\ src.height = 3
    /\ dst.imagedata = pre.dst

C9_AnyOrderSameResult ==
    (pc \in {"loop", "done"} /\ Computes /\ HeadersValid)
    => /\ src.imagedata = pre.src
       /\ \A k \in DOMAIN writes :
             writes[k] =
                 Cardinality({it \in Iterations(src.width, src.height) \ pending :
                                 (it[1] + 1) + src.width * (it[2] + 1) = k})
       /\ \A k \in DOMAIN writes : writes[k] <= 1
       /\ \A k \in DOMAIN writes : writes[k] = 0 => dst.imagedata[k] = pre.dst[k]
       /\ pc = "done" => dst.imagedata = SequentialResult

\* A run that ended with an iteration other than the row-major last one.
C9_Witness ==
    /\ Succeeded /\ Computes
    /\ src.width = 3 /\ src.height = 3
    /\ <<i, j>> = <<0, 0>>
    /\ dst.imagedata = SequentialResult
    /\ dst.imagedata # pre.dst

\* C10: every index at which the source buffer is read lies in [0, W*H).
C10_ReadsInBounds ==
    \A k \in reads : 0 <= k /\ k < src.width * src.height

====
